---- MODULE Spec2Model ----
(***************************************************************************)
(* Model of productive_new_editors.run: the one-pass report that, for each *)
(* user registered in a time span, counts the user's content-namespace     *)
(* revisions that are not reverted within 48 hours, stops at n of them,    *)
(* and prints one row (user, productive, censored) per user.               *)
(*                                                                         *)
(* Times are integer seconds.  The database (mw.database) and the revert   *)
(* detector (mw.lib.reverts) are libraries outside the program; they are   *)
(* modelled by RevisionsQuery, Timestamp and check_row below.  A revision  *)
(* row summarises its page's later history by rpos/rdelay: the position    *)
(* (1 = the next revision of the page, 0 = none) and the distance in       *)
(* seconds of the earliest later revision that restores an earlier state   *)
(* of the page; avail = FALSE says the content state needed for the        *)
(* comparison is unavailable, in which case the detector raises.           *)
(* run() handles no exception, so a raise in a library call ends the run   *)
(* (pc = "aborted").  Revision timestamps are taken to parse, and failures *)
(* of the database connection are left out.                                *)
(***************************************************************************)
EXTENDS Integers, Sequences, FiniteSets, TLC

\* ---------------------------------------------------------------- bounds
MaxRevs == 3
MaxN == 2
MaxT == 1
RunMaxUsers == 2

\* ------------------------------------------------------------- constants
DAY_SECONDS == 60*60*24
RADIUS == 15
HOUR == 60*60
T0 == 10 * DAY_SECONDS

\* ------------------------------------------------------------ input sets
Clean         == [page_namespace |-> 0, rpos |-> 0, rdelay |-> 0, avail |-> TRUE]
RevertedSoon  == [page_namespace |-> 0, rpos |-> 1, rdelay |-> HOUR \div 2, avail |-> TRUE]
RevertedEdge  == [page_namespace |-> 0, rpos |-> RADIUS, rdelay |-> 2*DAY_SECONDS - 1, avail |-> TRUE]
RevertedFar   == [page_namespace |-> 0, rpos |-> RADIUS + 1, rdelay |-> HOUR \div 2, avail |-> TRUE]
RevertedLate  == [page_namespace |-> 0, rpos |-> 1, rdelay |-> 2*DAY_SECONDS + 1, avail |-> TRUE]
Unverifiable  == [page_namespace |-> 0, rpos |-> 0, rdelay |-> 0, avail |-> FALSE]
Talk          == [page_namespace |-> 1, rpos |-> 0, rdelay |-> 0, avail |-> TRUE]
TalkReverted  == [page_namespace |-> 1, rpos |-> 1, rdelay |-> HOUR \div 2, avail |-> TRUE]

RevKinds == {Clean, RevertedSoon, RevertedEdge, RevertedFar, RevertedLate,
             Unverifiable, Talk, TalkReverted}

SeqsUpTo(S, k) == UNION {[1..m -> S] : m \in 0..k}

\* The raw user_registration column: a parsable timestamp, or not.
GoodReg(secs) == [valid |-> TRUE, unix |-> secs]
BadReg == [valid |-> FALSE, unix |-> 0]

\* A user of the database with all the revisions the user ever made, one
\* per hour from base + first on, in time order.
MkUser(id, raw, base, first, kinds) ==
    [user_id |-> id,
     user_registration |-> raw,
     revs |-> [i \in 1..Len(kinds) |->
                 [rev_timestamp |-> base + first + (i - 1) * HOUR,
                  page_namespace |-> kinds[i].page_namespace,
                  rpos |-> kinds[i].rpos,
                  rdelay |-> kinds[i].rdelay,
                  avail |-> kinds[i].avail]]]

Firsts == {HOUR, DAY_SECONDS - 2*HOUR}

\* Every user with up to maxlen revisions of any kind.
UserSet(id, maxlen) ==
    {MkUser(id, IF ok THEN GoodReg(T0) ELSE BadReg, T0, f, ks) :
        ok \in BOOLEAN, f \in Firsts, ks \in SeqsUpTo(RevKinds, maxlen)}

\* The users of a run over several users: a few short histories, and one
\* user whose registration does not parse.
RunHistories == {<<>>, <<Clean>>, <<Clean, Clean>>, <<RevertedSoon>>,
                 <<Talk, Clean>>, <<Unverifiable>>}
RunUsers ==
    {MkUser(0, GoodReg(T0), T0, HOUR, ks) : ks \in RunHistories}
        \cup {MkUser(0, BadReg, T0, HOUR, <<Clean>>)}

NowSet == {T0 + k * DAY_SECONDS - d : k \in {2, 3}, d \in {0, 1}}

VARIABLES n, t, users, pc, output, ui, user_registration, revisions, ri,
          productive_edits, checks, verdicts, queried

vars == <<n, t, users, pc, output, ui, user_registration, revisions, ri,
          productive_edits, checks, verdicts, queried>>

\* ------------------------------------------------------------- libraries
\* mw.Timestamp(raw): the parsed time; raises on an unparsable value.
Parsable(raw) == raw.valid
Timestamp(raw) == raw.unix

\* db.revisions.query(user_id, before): the user's revisions made strictly
\* before `before`, in time order.
RevisionsQuery(user_row, before) ==
    SelectSeq(user_row.revs, LAMBDA r : r.rev_timestamp < before)

\* reverts.database.check_row(db, rev_row, radius, before): "revert" when a
\* revision among the next `radius` of the page, made before `before`,
\* restores an earlier state; "none" otherwise; "raise" when the content
\* state cannot be read.
check_row(rev_row, radius, before) ==
    IF ~rev_row.avail THEN "raise"
    ELSE IF /\ rev_row.rpos >= 1
            /\ rev_row.rpos <= radius
            /\ rev_row.rev_timestamp + rev_row.rdelay < before
         THEN "revert"
         ELSE "none"

\* --------------------------------------------------------------- program
HeaderRow == [kind |-> "header"]

QueryBefore(reg, days) == reg + (DAY_SECONDS * days)

\* Mutant: the namespace test left out.
IsContentAny(rev_row) == TRUE

IsContent(rev_row) == rev_row.page_namespace = 0

\* Mutant: a three-day revert window.
revert_end_of_life_3days(rev_timestamp) == rev_timestamp + DAY_SECONDS * 3

revert_end_of_life(rev_timestamp) == rev_timestamp + DAY_SECONDS * 2

\* Mutant: the counter carried over from the previous user.
KeepCount(count) == count

ResetCount(count) == 0

\* Mutant: a productive edit counted twice.
IncrementTwice(count) == count + 2

Increment(count) == count + 1

\* Mutant: the loop never exits early.
LoopNeverDone(count, need) == FALSE

LoopDone(count, need) == count >= need

\* Mutant: one productive edit more than n is required.
ProductiveStrict(count, need) == count > need

Productive(count, need) == count >= need

\* Mutant: the boundary instant counted as censored.
CensoredInclusive(now, reg, days) == now - reg <= (2 + days) * DAY_SECONDS

Censored(now, reg, days) == now - reg < (2 + days) * DAY_SECONDS

Row(user_row, productive, censored, now) ==
    [kind |-> "row",
     user_id |-> user_row.user_id,
     user_registration |-> user_row.user_registration,
     productive |-> productive,
     censored |-> censored,
     at |-> now]

PrintHeader ==
    /\ pc = "start"
    /\ output' = Append(output, HeaderRow)
    /\ pc' = "next_user"
    /\ UNCHANGED <<n, t, users, ui, user_registration, revisions, ri,
                   productive_edits, checks, verdicts, queried>>

NextUser ==
    /\ pc = "next_user"
    /\ IF ui < Len(users)
          THEN ui' = ui + 1 /\ pc' = "parse_reg"
          ELSE ui' = ui /\ pc' = "done"
    /\ UNCHANGED <<n, t, users, output, user_registration, revisions, ri,
                   productive_edits, checks, verdicts, queried>>

\* Mutant: an unparsable registration silently defaulted to time 0.
ParseRegistrationDefaulting ==
    /\ pc = "parse_reg"
    /\ user_registration' = IF Parsable(users[ui].user_registration)
                                THEN Timestamp(users[ui].user_registration)
                                ELSE 0
    /\ pc' = "query"
    /\ UNCHANGED <<n, t, users, output, ui, revisions, ri,
                   productive_edits, checks, verdicts, queried>>

ParseRegistration ==
    /\ pc = "parse_reg"
    /\ IF Parsable(users[ui].user_registration)
          THEN /\ user_registration' = Timestamp(users[ui].user_registration)
               /\ pc' = "query"
          ELSE /\ user_registration' = user_registration
               /\ pc' = "aborted"
    /\ UNCHANGED <<n, t, users, output, ui, revisions, ri,
                   productive_edits, checks, verdicts, queried>>

QueryRevisions ==
    /\ pc = "query"
    /\ revisions' = RevisionsQuery(users[ui], QueryBefore(user_registration, t))
    /\ queried' = Append(queried, ui)
    /\ productive_edits' = ResetCount(productive_edits)
    /\ ri' = 0
    /\ checks' = 0
    /\ verdicts' = <<>>
    /\ pc' = "scan"
    /\ UNCHANGED <<n, t, users, output, ui, user_registration>>

PullRevision ==
    /\ pc = "scan"
    /\ IF ri < Len(revisions)
          THEN ri' = ri + 1 /\ pc' = "body"
          ELSE ri' = ri /\ pc' = "print"
    /\ UNCHANGED <<n, t, users, output, ui, user_registration, revisions,
                   productive_edits, checks, verdicts, queried>>

ProcessRevision ==
    /\ pc = "body"
    /\ LET rev_row == revisions[ri]
           rev_timestamp == rev_row.rev_timestamp
           revert == check_row(rev_row, RADIUS, revert_end_of_life(rev_timestamp))
       IN  IF ~IsContent(rev_row)
              THEN /\ verdicts' = Append(verdicts, "skipped")
                   /\ pc' = "scan"
                   /\ UNCHANGED <<productive_edits, checks>>
              ELSE /\ checks' = checks + 1
                   /\ IF revert = "raise"
                         THEN /\ verdicts' = Append(verdicts, "failed")
                              /\ pc' = "aborted"
                              /\ UNCHANGED productive_edits
                         ELSE IF revert = "none"
                                 THEN /\ productive_edits' = Increment(productive_edits)
                                      /\ verdicts' = Append(verdicts, "counted")
                                      /\ pc' = IF LoopDone(productive_edits', n)
                                                  THEN "print" ELSE "scan"
                                 ELSE /\ verdicts' = Append(verdicts, "reverted")
                                      /\ pc' = "scan"
                                      /\ UNCHANGED productive_edits
    /\ UNCHANGED <<n, t, users, output, ui, user_registration, revisions, ri,
                   queried>>

\* Mutant: no row for a user without revisions.
PrintRowSkipEmpty ==
    /\ pc = "print"
    /\ \E now \in NowSet :
          output' = IF revisions = <<>>
                       THEN output
                       ELSE Append(output,
                                   Row(users[ui], Productive(productive_edits, n),
                                       Censored(now, user_registration, t), now))
    /\ pc' = "next_user"
    /\ UNCHANGED <<n, t, users, ui, user_registration, revisions, ri,
                   productive_edits, checks, verdicts, queried>>

PrintRow ==
    /\ pc = "print"
    /\ \E now \in NowSet :
          output' = Append(output,
                           Row(users[ui], Productive(productive_edits, n),
                               Censored(now, user_registration, t), now))
    /\ pc' = "next_user"
    /\ UNCHANGED <<n, t, users, ui, user_registration, revisions, ri,
                   productive_edits, checks, verdicts, queried>>

Next ==
    \/ PrintHeader
    \/ NextUser
    \/ ParseRegistration
    \/ QueryRevisions
    \/ PullRevision
    \/ ProcessRevision
    \/ PrintRow

InitLocals ==
    /\ pc = "start"
    /\ output = <<>>
    /\ ui = 0
    /\ user_registration = 0
    /\ revisions = <<>>
    /\ ri = 0
    /\ productive_edits = 0
    /\ checks = 0
    /\ verdicts = <<>>
    /\ queried = <<>>

\* One user with any history of up to MaxRevs revisions.
Init ==
    /\ n \in 0..MaxN
    /\ t \in 0..MaxT
    /\ \E u \in UserSet(1, MaxRevs) : users = <<u>>
    /\ InitLocals

Spec == Init /\ [][Next]_vars

\* A run over up to RunMaxUsers users with short histories.
InitRun ==
    /\ n \in 0..MaxN
    /\ t \in 0..MaxT
    /\ \E k \in 0..RunMaxUsers :
          \E us \in [1..k -> RunUsers] :
              users = [i \in 1..k |-> [us[i] EXCEPT !.user_id = i]]
    /\ InitLocals

SpecRun == InitRun /\ [][Next]_vars

\* ---------------------------------------------------------------- claims
NumRows == IF output = <<>> THEN 0 ELSE Len(output) - 1

\* The row printed for the k-th user (the header is output[1]).
RowOf(k) == output[k + 1]

\* The row of the current user has been printed; revisions, ri, verdicts
\* and checks are still those of that user's scan.
RowPrinted == pc \in {"next_user", "done"} /\ ui >= 1 /\ NumRows = ui
ThisRow == RowOf(ui)

\* The revisions of the current user that have been through the loop body.
Processed == 1..Len(verdicts)

\* The revision is a content edit for which the detector, asked with radius
\* 15 and the deadline two days after the edit, reports no revert.
Qualifies(r) ==
    /\ r.page_namespace = 0
    /\ check_row(r, 15, r.rev_timestamp + 2 * 86400) = "none"

QualifyingCount(revs) == Cardinality({i \in DOMAIN revs : Qualifies(revs[i])})

\* The revision is undone by one of the 15 next revisions of its page, made
\* less than 48 hours after it.
RevertedInWindow(r) ==
    /\ r.rpos >= 1
    /\ r.rpos <= 15
    /\ r.rdelay < 48 * 3600

\* C1: for n >= 1 the productive flag of the printed row is True exactly
\* when the user's queried revisions hold at least n content-namespace
\* revisions for which the revert check returns no revert, whether the loop
\* ran to the end of the sequence or left it early.
C1_ProductiveIffEnough ==
    (n >= 1 /\ RowPrinted) =>
        (ThisRow.productive <=> QualifyingCount(revisions) >= n)

\* C1 witness: a row printed True after an early exit that left a revision
\* of the sequence unread.
C1_Witness ==
    /\ n = 2
    /\ RowPrinted
    /\ ThisRow.productive
    /\ ri < Len(revisions)

\* A second case of C1, reached too: the loop exhausted the sequence, which
\* holds qualifying revisions, but fewer than n.
C1_ExhaustedCase ==
    /\ n = 2
    /\ RowPrinted
    /\ ~ThisRow.productive
    /\ ri = Len(revisions)
    /\ QualifyingCount(revisions) = 1

\* C2: once the counter has reached n (n >= 1) the revision loop is over:
\* the program is no longer at the loop head or in the loop body, the
\* revision that was pulled last is the one counted last, and the detector
\* was called once per content revision pulled, so neither a pull nor a
\* detector call follows; for n = 2 and a user with at least two content
\* edits, none of them reverted, the detector has been called exactly twice
\* when the scan of the user ends.
C2_ShortCircuit ==
    n >= 1 =>
        /\ (queried # <<>> /\ productive_edits >= n) =>
              /\ pc \notin {"scan", "body"}
              /\ productive_edits = n
              /\ ri = Len(verdicts)
              /\ verdicts[ri] = "counted"
              /\ checks = Cardinality({i \in 1..ri : revisions[i].page_namespace = 0})
        /\ (/\ n = 2
            /\ pc \in {"print", "next_user", "done"}
            /\ queried # <<>>
            /\ \A i \in DOMAIN revisions :
                   revisions[i].page_namespace = 0 => Qualifies(revisions[i])
            /\ QualifyingCount(revisions) >= 2) => checks = 2

\* C2 witness: three unreverted content edits, n = 2, the scan over after
\* two detector calls with the third edit never pulled.
C2_Witness ==
    /\ n = 2
    /\ pc = "print"
    /\ Len(revisions) = 3
    /\ \A i \in DOMAIN revisions : Qualifies(revisions[i])
    /\ checks = 2
    /\ ri = 2

\* C3: the censored flag of every printed row is (now - registration) <
\* (t + 2) * 86400 with now the time the row was printed; for t = 1 a user
\* registered exactly 3 * 86400 seconds before is not censored and one
\* registered 3 * 86400 - 1 seconds before is.
C3_CensoredFlag ==
    \A k \in 1..NumRows :
        LET row == RowOf(k)
            age == row.at - row.user_registration.unix
        IN  /\ row.censored <=> (age < (t + 2) * 86400)
            /\ (t = 1 /\ age = 3 * 86400) => ~row.censored
            /\ (t = 1 /\ age = 3 * 86400 - 1) => row.censored

\* C3 witness: a row printed exactly at the boundary for t = 1.
C3_Witness ==
    /\ t = 1
    /\ NumRows = 1
    /\ RowOf(1).at - RowOf(1).user_registration.unix = 3 * 86400
    /\ ~RowOf(1).censored

\* The other side of the C3 boundary, reached too.
C3_JustInsideCase ==
    /\ t = 1
    /\ NumRows = 1
    /\ RowOf(1).at - RowOf(1).user_registration.unix = 3 * 86400 - 1
    /\ RowOf(1).censored

\* C4: a revision outside namespace 0 is skipped: it is never counted and
\* never handed to the detector, so the detector has been called once per
\* content revision processed, and a user whose revisions are all outside
\* namespace 0 is printed with productive = False for every n >= 1.
C4_NonContentNeverCounts ==
    /\ \A i \in Processed :
           revisions[i].page_namespace # 0 => verdicts[i] = "skipped"
    /\ checks = Cardinality({i \in Processed : revisions[i].page_namespace = 0})
    /\ productive_edits <= Cardinality({i \in Processed : revisions[i].page_namespace = 0})
    /\ (/\ n >= 1
        /\ RowPrinted
        /\ \A i \in DOMAIN revisions : revisions[i].page_namespace # 0)
           => ~ThisRow.productive

\* C4 witness: n = 1 and a user with only non-content revisions, one of
\* them reverted and one not, printed as not productive.
C4_Witness ==
    /\ n = 1
    /\ RowPrinted
    /\ Len(revisions) >= 2
    /\ \A i \in DOMAIN revisions : revisions[i].page_namespace # 0
    /\ \E i, j \in DOMAIN revisions : revisions[i].rpos = 1 /\ revisions[j].rpos = 0
    /\ ~ThisRow.productive

\* C5: a content edit whose state is readable counts as productive exactly
\* when it is not reverted within the 15 next revisions of its page and
\* within 48 hours; the counter is the number of edits so counted.  With
\* n = 1, a user whose only edit, one hour after registration, is reverted
\* half an hour later is printed not productive, and a user with three
\* unreverted content edits one, two and three hours after registration
\* is printed productive.
C5_RevertedDoesNotCount ==
    /\ \A i \in Processed :
           (revisions[i].page_namespace = 0 /\ revisions[i].avail) =>
               /\ RevertedInWindow(revisions[i]) <=> verdicts[i] = "reverted"
               /\ ~RevertedInWindow(revisions[i]) <=> verdicts[i] = "counted"
    /\ productive_edits = Cardinality({i \in Processed : verdicts[i] = "counted"})
    /\ (n = 1 /\ RowPrinted) =>
           /\ (/\ Len(revisions) = 1
               /\ revisions[1].rev_timestamp = user_registration + 3600
               /\ revisions[1].page_namespace = 0
               /\ revisions[1].avail
               /\ revisions[1].rpos = 1
               /\ revisions[1].rdelay = 1800) => ~ThisRow.productive
           /\ (/\ Len(revisions) = 3
               /\ \A i \in 1..3 :
                      /\ revisions[i].rev_timestamp = user_registration + i * 3600
                      /\ revisions[i].page_namespace = 0
                      /\ revisions[i].avail
                      /\ revisions[i].rpos = 0) => ThisRow.productive

\* C5 witness: a content edit reverted one second after the 48-hour
\* deadline and one reverted by the 16th next revision have both been
\* counted, after one reverted in time was not.
C5_Witness ==
    /\ Len(verdicts) = 3
    /\ revisions[1].rpos = 1 /\ revisions[1].rdelay = 1800
    /\ verdicts[1] = "reverted"
    /\ revisions[2].rpos = 1 /\ revisions[2].rdelay = 48 * 3600 + 1
    /\ verdicts[2] = "counted"
    /\ revisions[3].rpos = 16 /\ revisions[3].rdelay = 1800
    /\ verdicts[3] = "counted"

\* The scenario of C5 with a single reverted edit, reached too.
C5_OnlyEditRevertedCase ==
    /\ n = 1
    /\ RowPrinted
    /\ Len(revisions) = 1
    /\ revisions[1].rev_timestamp = user_registration + 3600
    /\ revisions[1].rpos = 1 /\ revisions[1].rdelay = 1800
    /\ revisions[1].page_namespace = 0
    /\ ~ThisRow.productive

C10_CounterInLoop ==
    (n >= 1 /\ pc \in {"scan", "body", "print"}) =>
        /\ productive_edits >= 0
        /\ productive_edits <= n
        /\ (pc = "print" /\ Productive(productive_edits, n)) => productive_edits = n

C10_CounterStep ==
    (pc \in {"scan", "body"} /\ productive_edits' # productive_edits) =>
        /\ productive_edits' = productive_edits + 1
        /\ pc = "body"
        /\ revisions[ri].page_namespace = 0
        /\ Qualifies(revisions[ri])

C10_CounterBounded == [](C10_CounterInLoop) /\ [][C10_CounterStep]_vars

\* C10 witness: the counter at n = 2 with a further qualifying revision
\* left unread, so n is not the user's total of productive edits.
C10_Witness ==
    /\ n = 2
    /\ pc = "print"
    /\ productive_edits = 2
    /\ QualifyingCount(revisions) = 3

\* C6: the output is the header, printed once and first, followed by one
\* row per user whose scan has ended, in the order of the users query; no
\* row of a user is printed before the user's scan ends, the revisions of a
\* user are queried only when the rows of all earlier users are out, and a
\* run that completes has printed as many rows as there are users, users
\* without revisions included.
C6_StreamedInOrder ==
    /\ pc = "start" <=> output = <<>>
    /\ \A i \in DOMAIN output :
           output[i].kind = (IF i = 1 THEN "header" ELSE "row")
    /\ \A k \in 1..NumRows : RowOf(k).user_id = users[k].user_id
    /\ pc \in {"parse_reg", "query", "scan", "body", "print"} => NumRows = ui - 1
    /\ pc = "next_user" => NumRows = ui
    /\ \A j \in DOMAIN queried : queried[j] = j
    /\ Len(queried) <= NumRows + 1
    /\ pc = "done" => NumRows = Len(users)

\* C6 witness: a completed run over two users, the first of them without
\* any revision, with the header and both rows printed.
C6_Witness ==
    /\ pc = "done"
    /\ Len(users) = 2
    /\ users[1].revs = <<>>
    /\ users[2].revs # <<>>
    /\ Len(output) = 3

\* C8: a user whose registration timestamp does not parse stops the run
\* with an error: no revisions are queried for that user, no row is printed
\* for that user, and the rows printed for earlier users stay as they were.
C8_NoQueryNoRow ==
    \A k \in DOMAIN users :
        ~users[k].user_registration.valid =>
            /\ \A j \in DOMAIN queried : queried[j] # k
            /\ \A i \in 1..NumRows : RowOf(i).user_id # k
            /\ ui <= k
            /\ ui = k => pc \in {"parse_reg", "aborted"}

C8_RowsKept ==
    /\ Len(output') >= Len(output)
    /\ SubSeq(output', 1, Len(output)) = output

C8_BadRegistrationAborts == [](C8_NoQueryNoRow) /\ [][C8_RowsKept]_vars

\* C8 witness: the run has aborted on its second user, whose registration
\* does not parse, with the first user's row printed.
C8_Witness ==
    /\ pc = "aborted"
    /\ ui = 2
    /\ ~users[2].user_registration.valid
    /\ NumRows = 1
    /\ queried = <<1>>

\* What the user's own record, n and t say the productive flag should be.
OwnVerdict(user_row) ==
    QualifyingCount(RevisionsQuery(user_row,
                                   user_row.user_registration.unix + t * 86400)) >= n

\* C9: the counter starts at 0 for every user; the productive flag of every
\* printed row is the one the user's own registration time and revisions
\* give for the run's n and t, whatever users come before or after; so two
\* users with the same registration time and the same revisions are printed
\* with the same flag, wherever they stand in the run.
C9_UsersIndependent ==
    /\ (pc = "scan" /\ ri = 0) => productive_edits = 0
    /\ \A k \in 1..NumRows : RowOf(k).productive = OwnVerdict(users[k])
    /\ \A i, j \in 1..NumRows :
           (/\ users[i].user_registration = users[j].user_registration
            /\ users[i].revs = users[j].revs)
               => RowOf(i).productive = RowOf(j).productive

\* C9 witness: two users with the same single unreverted content edit and
\* n = 2, both printed, the second after the first left a count of 1.
C9_Witness ==
    /\ n = 2
    /\ t = 1
    /\ NumRows = 2
    /\ users[1].revs = users[2].revs
    /\ Len(users[1].revs) = 1
    /\ users[1].revs[1].page_namespace = 0
    /\ users[1].revs[1].rpos = 0
    /\ users[1].revs[1].avail
    /\ ~RowOf(2).productive

\* A second case of C9, reached too: the second of two users with the same
\* revisions is scanned after the first left the loop early.
C9_AfterEarlyExitCase ==
    /\ n = 1
    /\ NumRows = 2
    /\ users[1].revs = users[2].revs
    /\ Len(users[1].revs) = 2
    /\ RowOf(1).productive
    /\ RowOf(2).productive

====
